---- MODULE Spec2Model ----
(***************************************************************************)
(* Model of src/main.py: thread ("rosca") identification from a photo.     *)
(*                                                                         *)
(* Python floats are IEEE 754 binary64 values.  A float is represented     *)
(* exactly by a record [p, q, r] standing for the real number              *)
(*        p/q + r / (q * 2^FracBits)                                       *)
(* (p/q is the decimal or rational the float approximates, r the rounding  *)
(* residue).  Every arithmetic operation computes the exact real result    *)
(* and rounds it to the nearest binary64 value, ties to even, as the       *)
(* hardware does.                                                          *)
(***************************************************************************)
EXTENDS Integers, Sequences, FiniteSets, TLC

\* ------------------------------------------------------------------------
\* binary64 arithmetic
\* ------------------------------------------------------------------------
FracBits == 56

Flt(p, q, r) == [p |-> p, q |-> q, r |-> r]

FIsZero(x) == x.p = 0 /\ x.r = 0

FIsPos(x) == x.p > 0 \/ (x.p = 0 /\ x.r > 0)

FNeg(x) == Flt(-x.p, x.q, -x.r)

FAbs(x) == IF FIsPos(x) \/ FIsZero(x) THEN x ELSE FNeg(x)

\* (a * 2^j) mod m, without leaving 32 bits
RECURSIVE ShiftMod(_, _, _)
ShiftMod(a, j, m) ==
    IF j < 8 THEN (a * (2 ^ j)) % m ELSE ShiftMod((a * 256) % m, j - 8, m)

\* x >= 2^k, for a positive x
AtLeastPow2(x, k) ==
    IF k >= 0
    THEN x.p > (2 ^ k) * x.q \/ (x.p = (2 ^ k) * x.q /\ x.r >= 0)
    ELSE x.p * (2 ^ (-k)) > x.q \/ (x.p * (2 ^ (-k)) = x.q /\ x.r >= 0)

\* the exponent range of the values the program handles
ExpMin == 0 - 4
ExpMax == 10

\* the k with 2^k <= x < 2^(k+1)
Binade(x) == CHOOSE k \in ExpMin .. ExpMax : AtLeastPow2(x, k) /\ ~AtLeastPow2(x, k + 1)

\* x moved to the neighbouring multiple of G: down by rho, or up by G - rho
\* (rho = distance above the multiple below, odd = that multiple is odd)
RoundTo(x, G, rho, odd) ==
    IF 2 * rho < G \/ (2 * rho = G /\ ~odd)
    THEN Flt(x.p, x.q, x.r - rho)
    ELSE Flt(x.p, x.q, x.r + (G - rho))

RoundRem(x, G, rho2) == RoundTo(x, G, rho2 % G, rho2 >= G)

\* base = (p * 2^FracBits) mod 2G
RoundGrid(x, G, base) == RoundRem(x, G, (base + x.r) % (2 * G))

\* In the binade k the binary64 values are the multiples of 2^(k-52), that is
\* of G = q * 2^(FracBits+k-52) units of 1/(q * 2^FracBits).
RoundIn(x, k) ==
    RoundGrid(x, x.q * (2 ^ (FracBits + k - 52)),
              (2 ^ (FracBits + k - 51)) * ShiftMod(x.p % x.q, 51 - k, x.q))

\* Nearest binary64 to a positive real, ties to even.  A result below
\* 2^ExpMin only arises as the difference of two floats within a factor two of
\* each other, which is exact.
RoundPos(x) == IF ~AtLeastPow2(x, ExpMin) THEN x ELSE RoundIn(x, Binade(x))

WithSign(y, positive) == IF positive THEN y ELSE FNeg(y)

Round(x) == IF FIsZero(x) THEN x ELSE WithSign(RoundPos(FAbs(x)), FIsPos(x))

RECURSIVE Gcd(_, _)
Gcd(a, b) == IF b = 0 THEN a ELSE Gcd(b, a % b)

\* x written over the denominator q * c
Scale(x, c) == Flt(x.p * c, x.q * c, x.r * c)

SubSame(xs, ys) == Flt(xs.p - ys.p, xs.q, xs.r - ys.r)

\* exact real difference x - y, over the least common denominator
ExactSub(x, y) ==
    SubSame(Scale(x, y.q \div Gcd(x.q, y.q)), Scale(y, x.q \div Gcd(x.q, y.q)))

\* float literal with two decimals, given in hundredths
FLit(n) == Round(Flt(n, 100, 0))

FSub(x, y) == Round(ExactSub(x, y))

FAdd(x, y) == Round(ExactSub(x, FNeg(y)))

FIsNonNeg(x) == FIsPos(x) \/ FIsZero(x)

FLeq(x, y) == FIsNonNeg(ExactSub(y, x))

FLt(x, y) == FIsPos(ExactSub(y, x))

FEq(x, y) == FIsZero(ExactSub(x, y))

\* int * float
FMulInt(i, x) == Round(Flt(i * x.p, x.q, i * x.r))

\* float(a) / int(w), w # 0
FDivInt(a, w) == Round(Flt(a, w, 0))

\* format(x, ".nf") for x >= 0: the integer nearest to x * c (c = 10^n), from
\* the exact binary value, an exact tie going to the even neighbour
FFormat(x, c) ==
    LET h   == (c * x.p) \div x.q
        rem == (c * x.p) % x.q
    IN  IF 2 * rem < x.q THEN h
        ELSE IF 2 * rem > x.q THEN h + 1
        ELSE IF x.r > 0 THEN h + 1
        ELSE IF x.r < 0 THEN h
        ELSE IF h % 2 = 0 THEN h ELSE h + 1

\* ------------------------------------------------------------------------
\* TABELA_ROSCAS (values in hundredths of a millimetre, parsed as floats)
\* ------------------------------------------------------------------------
Entrada(bitola, centesimos) == [bitola |-> bitola, ref |-> FLit(centesimos)]

TABELA_ROSCAS == <<
    [norma   |-> "BSP",
     externa |-> << Entrada("1/8", 970), Entrada("1/4", 1320), Entrada("3/8", 1670),
                    Entrada("1/2", 2090), Entrada("3/4", 2640), Entrada("1", 3320) >>,
     interna |-> << Entrada("1/8", 850), Entrada("1/4", 1180), Entrada("3/8", 1530),
                    Entrada("1/2", 1900), Entrada("3/4", 2450), Entrada("1", 3030) >>],
    [norma   |-> "NPT",
     externa |-> << Entrada("1/8", 1020), Entrada("1/4", 1370), Entrada("3/8", 1710),
                    Entrada("1/2", 2130), Entrada("3/4", 2670), Entrada("1", 3350) >>,
     interna |-> << Entrada("1/8", 870), Entrada("1/4", 1190), Entrada("3/8", 1550),
                    Entrada("1/2", 1930), Entrada("3/4", 2490), Entrada("1", 3080) >>],
    [norma   |-> "UNF",
     externa |-> << Entrada("1/4", 635), Entrada("3/8", 953), Entrada("1/2", 1270),
                    Entrada("3/4", 1905), Entrada("1", 2540) >>,
     interna |-> << Entrada("1/4", 580), Entrada("3/8", 880), Entrada("1/2", 1200),
                    Entrada("3/4", 1830), Entrada("1", 2450) >>] >>

\* ------------------------------------------------------------------------
\* evitar_cruzamento
\* ------------------------------------------------------------------------
DISTANCIA_MINIMA == 20

\* sorted(): stable insertion of x into an ascending list
RECURSIVE Inserir(_, _)
Inserir(ord, x) ==
    IF ord = <<>> THEN << x >>
    ELSE IF FLt(x, Head(ord)) THEN << x >> \o ord
    ELSE << Head(ord) >> \o Inserir(Tail(ord), x)

RECURSIVE sorted(_)
sorted(medidas) ==
    IF medidas = <<>> THEN <<>>
    ELSE Inserir(sorted(SubSeq(medidas, 1, Len(medidas) - 1)), medidas[Len(medidas)])

\* one iteration of the for loop: the value appended for medida
Espacada(medida, ultima, distancia_minima) ==
    IF FLt(FSub(medida, ultima), distancia_minima)
    THEN FAdd(ultima, distancia_minima)
    ELSE medida

RECURSIVE Percorrer(_, _, _, _)
Percorrer(ordenadas, i, ajustadas, distancia_minima) ==
    IF i > Len(ordenadas) THEN ajustadas
    ELSE Percorrer(ordenadas, i + 1,
                   Append(ajustadas,
                          Espacada(ordenadas[i], ajustadas[Len(ajustadas)], distancia_minima)),
                   distancia_minima)

\* the part after sorted(): the list is indexed at 0, then walked
Ajustar(medidas_ordenadas, distancia_minima) ==
    IF medidas_ordenadas = <<>>
    THEN [exc |-> "IndexError", lista |-> <<>>]
    ELSE [exc |-> "",
          lista |-> Percorrer(medidas_ordenadas, 2, << medidas_ordenadas[1] >>,
                              distancia_minima)]

\* the outcome is the returned list, or the exception raised
evitar_cruzamento(medidas, distancia_minima) == Ajustar(sorted(medidas), distancia_minima)

\* ------------------------------------------------------------------------
\* fator_decisao
\* ------------------------------------------------------------------------
TOLERANCIA == 30

Tipo(interna) == IF interna THEN "interna" ELSE "externa"

\* variant: the two bore kinds swapped
DadosTrocados(dados, tipo) == IF tipo = "interna" THEN dados.externa ELSE dados.interna

Dados(dados, tipo) == IF tipo = "interna" THEN dados.interna ELSE dados.externa

\* variant: the tolerance test in exact decimal arithmetic
QualificaDecimal(diametro_medido, diametro_ref) ==
    LET d == ExactSub(Flt(diametro_medido.p, diametro_medido.q, 0),
                      Flt(diametro_ref.p, diametro_ref.q, 0))
    IN  FLeq(FAbs(d), Flt(TOLERANCIA, 100, 0))

Qualifica(diametro_medido, diametro_ref) ==
    FLeq(FAbs(FSub(diametro_medido, diametro_ref)), FLit(TOLERANCIA))

Rotular(norma, s) ==
    [i \in 1 .. Len(s) |-> [norma |-> norma, bitola |-> s[i].bitola, ref |-> s[i].ref]]

\* the candidates one standard contributes, in declared order
CandidatosDe(dados, tipo, diametro_medido) ==
    Rotular(dados.norma,
            SelectSeq(Dados(dados, tipo), LAMBDA e : Qualifica(diametro_medido, e.ref)))

RECURSIVE Candidatos(_, _, _, _)
Candidatos(tab, i, tipo, diametro_medido) ==
    IF i > Len(tab) THEN <<>>
    ELSE CandidatosDe(tab[i], tipo, diametro_medido)
             \o Candidatos(tab, i + 1, tipo, diametro_medido)

\* variant: the candidate whose reference heads the adjusted list
EscolhidoPelaAjustada(candidatos, ajustadas) ==
    CHOOSE c \in { candidatos[i] : i \in 1 .. Len(candidatos) } : FEq(c.ref, ajustadas[1])

\* which candidate is reported
Escolhido(candidatos, ajustadas) == candidatos[1]

\* The returned tuple (norma, bitola, diametro_ref, confianca, tipo), with the
\* locals candidatos and _ kept for inspection; exc is the exception that
\* escapes, if any.
SemCandidato(exc, tipo, candidatos) ==
    [exc |-> exc, norma |-> "None", bitola |-> "None", diametro_ref |-> "None",
     confianca |-> FLit(0), tipo |-> tipo, candidatos |-> candidatos, ajustadas |-> <<>>]

Retorno(c, tipo, candidatos, ajustadas) ==
    [exc |-> "", norma |-> c.norma, bitola |-> c.bitola, diametro_ref |-> c.ref,
     confianca |-> FLit(9500), tipo |-> tipo, candidatos |-> candidatos,
     ajustadas |-> ajustadas]

\* after _ = evitar_cruzamento(medidas)
Reportar(tipo, candidatos, descartado) ==
    IF descartado.exc # ""
    THEN SemCandidato(descartado.exc, tipo, candidatos)
    ELSE Retorno(Escolhido(candidatos, descartado.lista), tipo, candidatos,
                 descartado.lista)

Medidas(candidatos) == [i \in 1 .. Len(candidatos) |-> candidatos[i].ref]

\* after the two loops have filled candidatos
Decidir(tipo, candidatos) ==
    IF candidatos = <<>>
    THEN SemCandidato("", tipo, candidatos)
    ELSE Reportar(tipo, candidatos,
                  evitar_cruzamento(Medidas(candidatos), FLit(DISTANCIA_MINIMA)))

fator_decisao(tab, diametro_medido, interna) ==
    Decidir(Tipo(interna), Candidatos(tab, 1, Tipo(interna), diametro_medido))

\* ------------------------------------------------------------------------
\* medir_diametro
\* ------------------------------------------------------------------------
\* An uploaded file is abstracted to what OpenCV finds in it: whether it
\* decodes, the radii HoughCircles returns after rounding (<<>> for None) and
\* the bounding boxes of the external contours.
Caixa(w, h) == [w |-> w, h |-> h]

Arquivo(decod, raios, caixas) == [decod |-> decod, raios |-> raios, caixas |-> caixas]

Maior(a, b) == IF a > b THEN a ELSE b

RECURSIVE MaxRaio(_)
MaxRaio(raios) ==
    IF Len(raios) = 1 THEN raios[1] ELSE Maior(raios[1], MaxRaio(Tail(raios)))

\* variant: the radius taken for the diameter
DiametroPxSemDobro(raios) == IF raios = <<>> THEN 0 - 1 ELSE MaxRaio(raios)

DiametroPx(raios) == IF raios = <<>> THEN 0 - 1 ELSE MaxRaio(raios) * 2

Plausivel(w, h) == 80 < w /\ w < 1200 /\ 40 < h /\ h < 800

RECURSIVE LarguraCartao(_, _, _)
LarguraCartao(caixas, i, largura_cartao_px) ==
    IF i > Len(caixas) THEN largura_cartao_px
    ELSE LarguraCartao(caixas, i + 1,
                       IF Plausivel(caixas[i].w, caixas[i].h)
                       THEN Maior(largura_cartao_px, caixas[i].w)
                       ELSE largura_cartao_px)

\* the annotated image: the input with the circles and the plausible boxes drawn
Anotada(img) ==
    [arq      |-> img,
     circulos |-> img.raios,
     cartoes  |-> SelectSeq(img.caixas, LAMBDA c : Plausivel(c.w, c.h))]

SemImagem == [arq |-> Arquivo(FALSE, <<>>, <<>>), circulos |-> <<>>, cartoes |-> <<>>]

\* variant: the guard without the test of the card width
SemMedidaSoCirculos(raios, largura_cartao_px) == raios = <<>>

\* the guard of the early return
SemMedida(raios, largura_cartao_px) == raios = <<>> \/ largura_cartao_px = 0

REFERENCIA_MM == 86

MenosUm == Flt(0 - 1, 1, 0)

\* valor: the returned number; escrita: the image handed to imwrite (SemImagem
\* when imwrite is not reached); divisores: the divisors of 86.0 / w executed
Medicao(exc, valor, escreveu, escrita, divisores) ==
    [exc |-> exc, valor |-> valor, escreveu |-> escreveu, escrita |-> escrita,
     divisores |-> divisores]

\* from cv2.imwrite on
Retornar(img, diametro_px, largura_cartao_px) ==
    IF SemMedida(img.raios, largura_cartao_px)
    THEN Medicao("", MenosUm, TRUE, Anotada(img), <<>>)
    ELSE IF largura_cartao_px = 0
    THEN Medicao("ZeroDivisionError", MenosUm, TRUE, Anotada(img), << largura_cartao_px >>)
    ELSE Medicao("", FMulInt(diametro_px, FDivInt(REFERENCIA_MM, largura_cartao_px)),
                 TRUE, Anotada(img), << largura_cartao_px >>)

medir_diametro(img) ==
    IF ~img.decod
    THEN Medicao("cv2.error", MenosUm, FALSE, SemImagem, <<>>)
    ELSE Retornar(img, DiametroPx(img.raios), LarguraCartao(img.caixas, 1, 0))

\* ------------------------------------------------------------------------
\* analisar
\* ------------------------------------------------------------------------
DEBUG_URL == "/static/debug_output.png"

lower(s) == IF s = "True" \/ s = "TRUE" THEN "true"
            ELSE IF s = "False" THEN "false" ELSE s

Erro400(mensagem) == [status |-> 400, erro |-> mensagem, debug |-> DEBUG_URL]

Erro500(e) == [status |-> 500, erro |-> e]

SemResposta == [status |-> 0]

\* the answer once fator_decisao has returned dec
Responde(dec, diametro_medido, interna) ==
    IF dec.exc # "" THEN Erro500(dec.exc)
    ELSE IF dec.norma = "None"
    THEN Erro400("Nenhuma correspondencia encontrada")
    ELSE [status             |-> 200,
          st                 |-> "ok",
          tipo_rosca         |-> IF lower(interna) = "true"
                                 THEN "Rosca interna (femea)"
                                 ELSE "Rosca externa (macho)",
          diametro_medido_mm |-> FFormat(diametro_medido, 100),
          bitola             |-> dec.bitola,
          norma              |-> dec.norma,
          confianca          |-> FFormat(dec.confianca, 10),
          observacao         |-> "Use cartao padrao (86 mm) como referencia.",
          debug              |-> DEBUG_URL]

\* the part of analisar after medir_diametro has returned diametro_medido
Resposta(tab, diametro_medido, interna) ==
    IF FLeq(diametro_medido, FLit(0))
    THEN Erro400("Nao foi possivel identificar a rosca")
    ELSE Responde(fator_decisao(tab, diametro_medido, lower(interna) = "true"),
                  diametro_medido, interna)

AposMedir(tab, m, interna) ==
    IF m.exc # "" THEN Erro500(m.exc) ELSE Resposta(tab, m.valor, interna)

\* the whole handler run on its own
analisar(tab, file, interna) == AposMedir(tab, medir_diametro(file), interna)

\* ------------------------------------------------------------------------
\* State
\* ------------------------------------------------------------------------
Pedidos == {"A", "B"}

\* variant: one fixed name for every upload
TempNameFixo(r) == "A"

\* the name NamedTemporaryFile gives the upload of a request
TempName(r) == r

Caminhos == { TempName(r) : r \in Pedidos }

Imagens == {
    Arquivo(FALSE, <<>>, <<>>),
    Arquivo(TRUE, <<>>, << Caixa(860, 540) >>),
    Arquivo(TRUE, <<>>, <<>>),
    Arquivo(TRUE, << 100 >>, << Caixa(80, 100), Caixa(1200, 500), Caixa(300, 40) >>),
    Arquivo(TRUE, << 100 >>, << Caixa(860, 540) >>),
    Arquivo(TRUE, << 50, 105, 20 >>, << Caixa(430, 270), Caixa(70, 50), Caixa(860, 540), Caixa(500, 300) >>),
    Arquivo(TRUE, << 95 >>, << Caixa(860, 540) >>),
    Arquivo(TRUE, << 50 >>, << Caixa(430, 270) >>),
    Arquivo(TRUE, << 50 >>, << Caixa(860, 540) >>),
    Arquivo(TRUE, << 33, 47 >>, << Caixa(333, 200), Caixa(1199, 799), Caixa(81, 41) >>),
    Arquivo(TRUE, << 12 >>, << Caixa(97, 60), Caixa(1199, 800) >>) }

Flags == {"True", "false"}

VARIABLES
    tabela,      \* the module global TABELA_ROSCAS
    fs,          \* temporary files: path -> content
    debug_file,  \* static/debug_output.png: who wrote it and what
    pc,          \* where each request is
    pedido,      \* the arguments of each request: file, interna
    medido,      \* analisar's local diametro_medido
    resp,        \* the response sent
    visto,       \* what the caller found at the debug link
    escreveu,    \* the request has written the debug image
    chamou,      \* the request has invoked fator_decisao
    divisores,   \* the divisors the request divided 86.0 by
    fd_pc, fd_n, fd_interna, fd_ret,   \* a call of fator_decisao on its own
    ec_pc, ec_medidas, ec_ret,         \* a call of evitar_cruzamento on its own
    ec_original                        \* the list as it was when passed

vars == << tabela, fs, debug_file, pc, pedido, medido, resp, visto, escreveu, chamou,
           divisores, fd_pc, fd_n, fd_interna, fd_ret, ec_pc, ec_medidas, ec_ret,
           ec_original >>

varsPedidos == << tabela, fs, debug_file, pc, pedido, medido, resp, visto, escreveu,
                  chamou, divisores >>

varsDecisao == << fd_pc, fd_n, fd_interna, fd_ret >>

varsEvitar == << ec_pc, ec_medidas, ec_ret, ec_original >>

SemPedido == [file |-> Arquivo(FALSE, <<>>, <<>>), interna |-> ""]

SemDebug == [de |-> "", imagem |-> SemImagem]

InitPedidos ==
    /\ tabela = TABELA_ROSCAS
    /\ fs = [c \in Caminhos |-> Arquivo(FALSE, <<>>, <<>>)]
    /\ debug_file = SemDebug
    /\ pc = [r \in Pedidos |-> "inicio"]
    /\ pedido = [r \in Pedidos |-> SemPedido]
    /\ medido = [r \in Pedidos |-> MenosUm]
    /\ resp = [r \in Pedidos |-> SemResposta]
    /\ visto = [r \in Pedidos |-> SemDebug]
    /\ escreveu = [r \in Pedidos |-> FALSE]
    /\ chamou = [r \in Pedidos |-> FALSE]
    /\ divisores = [r \in Pedidos |-> <<>>]

SemRetorno == SemCandidato("", "externa", <<>>)

InitDecisao ==
    /\ fd_pc = "inativo"
    /\ fd_n = 0
    /\ fd_interna = FALSE
    /\ fd_ret = SemRetorno

InitEvitar ==
    /\ ec_pc = "inativo"
    /\ ec_medidas = <<>>
    /\ ec_original = <<>>
    /\ ec_ret = [exc |-> "", lista |-> <<>>]

\* ------------------------------------------------------------------------
\* POST /analisar, one request r
\*
\* The handler is cut where it touches what requests share: the temporary
\* directory, static/debug_output.png and the connection to the caller.  On a
\* single event loop Medir and Responder of a request run back to back; with
\* several worker processes they interleave with other requests as below.
\* home() serves a static page and touches none of this state.
\* ------------------------------------------------------------------------
\* await file.read() and the write of the temporary file
Upload(r) ==
    /\ pc[r] = "inicio"
    /\ \E img \in Imagens, f \in Flags :
          /\ pedido' = [pedido EXCEPT ![r] = [file |-> img, interna |-> f]]
          /\ fs' = [fs EXCEPT ![TempName(r)] = img]
    /\ pc' = [pc EXCEPT ![r] = "gravado"]
    /\ UNCHANGED << tabela, debug_file, medido, resp, visto, escreveu, chamou, divisores >>
    /\ UNCHANGED << varsDecisao, varsEvitar >>

\* what analisar does with the outcome m of medir_diametro
Medido(r, m) ==
    /\ debug_file' = IF m.escreveu THEN [de |-> r, imagem |-> m.escrita] ELSE debug_file
    /\ escreveu' = [escreveu EXCEPT ![r] = m.escreveu]
    /\ divisores' = [divisores EXCEPT ![r] = m.divisores]
    /\ IF m.exc # ""
       THEN /\ resp' = [resp EXCEPT ![r] = Erro500(m.exc)]
            /\ pc' = [pc EXCEPT ![r] = "respondido"]
            /\ UNCHANGED medido
       ELSE /\ medido' = [medido EXCEPT ![r] = m.valor]
            /\ pc' = [pc EXCEPT ![r] = "medido"]
            /\ UNCHANGED resp

\* the call of medir_diametro; an exception goes to analisar's except clause
Medir(r) ==
    /\ pc[r] = "gravado"
    /\ Medido(r, medir_diametro(fs[TempName(r)]))
    /\ UNCHANGED << tabela, fs, pedido, visto, chamou >>
    /\ UNCHANGED << varsDecisao, varsEvitar >>

\* the rest of analisar: the decision and the JSON response
Responder(r) ==
    /\ pc[r] = "medido"
    /\ resp' = [resp EXCEPT ![r] = Resposta(tabela, medido[r], pedido[r].interna)]
    /\ chamou' = [chamou EXCEPT ![r] = ~FLeq(medido[r], FLit(0))]
    /\ pc' = [pc EXCEPT ![r] = "respondido"]
    /\ UNCHANGED << tabela, fs, debug_file, pedido, medido, visto, escreveu, divisores >>
    /\ UNCHANGED << varsDecisao, varsEvitar >>

\* the caller follows the debug link of the response (GET /static/...)
Buscar(r) ==
    /\ pc[r] = "respondido"
    /\ "debug" \in DOMAIN resp[r]
    /\ visto' = [visto EXCEPT ![r] = debug_file]
    /\ pc' = [pc EXCEPT ![r] = "visto"]
    /\ UNCHANGED << tabela, fs, debug_file, pedido, medido, resp, escreveu, chamou,
                    divisores >>
    /\ UNCHANGED << varsDecisao, varsEvitar >>

Init == InitPedidos /\ InitDecisao /\ InitEvitar

Next == \E r \in Pedidos : Upload(r) \/ Medir(r) \/ Responder(r) \/ Buscar(r)

Spec == Init /\ [][Next]_vars

\* ------------------------------------------------------------------------
\* fator_decisao called on its own, on every two-decimal diameter in a range
\* ------------------------------------------------------------------------
MinCent == 500
MaxCent == 5100

InitFD ==
    /\ InitPedidos /\ InitEvitar
    /\ fd_pc = "chamada"
    /\ fd_n \in MinCent .. MaxCent
    /\ fd_interna \in BOOLEAN
    /\ fd_ret = SemRetorno

ChamarFatorDecisao ==
    /\ fd_pc = "chamada"
    /\ fd_ret' = fator_decisao(tabela, FLit(fd_n), fd_interna)
    /\ fd_pc' = "retorno"
    /\ UNCHANGED << fd_n, fd_interna, varsPedidos, varsEvitar >>

NextFD == ChamarFatorDecisao

SpecDecisao == InitFD /\ [][NextFD]_vars

\* ------------------------------------------------------------------------
\* evitar_cruzamento called on its own, on every short list of catalog values
\* ------------------------------------------------------------------------
MaxLen == 3

ValoresEv == {850, 870, 880, 953, 970, 2450}

RECURSIVE Listas(_)
Listas(n) ==
    IF n = 0 THEN { <<>> }
    ELSE LET menores == Listas(n - 1)
         IN  menores \cup { Append(l, FLit(v)) : l \in { m \in menores : Len(m) = n - 1 },
                                                  v \in ValoresEv }

InitEC ==
    /\ InitPedidos /\ InitDecisao
    /\ ec_pc = "chamada"
    /\ ec_medidas \in Listas(MaxLen)
    /\ ec_original = ec_medidas
    /\ ec_ret = [exc |-> "", lista |-> <<>>]

\* sorted() builds a new list: the argument is left as it was
ChamarEvitarCruzamento ==
    /\ ec_pc = "chamada"
    /\ ec_ret' = evitar_cruzamento(ec_medidas, FLit(DISTANCIA_MINIMA))
    /\ ec_medidas' = ec_medidas
    /\ ec_pc' = "retorno"
    /\ UNCHANGED << ec_original, varsPedidos, varsDecisao >>

NextEC == ChamarEvitarCruzamento

SpecEvitar == InitEC /\ [][NextEC]_vars
\* ------------------------------------------------------------------------
\* Properties of fator_decisao (SpecDecisao)
\* ------------------------------------------------------------------------
Abs(x) == IF x < 0 THEN 0 - x ELSE x

\* the catalog positions (standard, size) of a bore kind
Posicoes(tipo) ==
    UNION { { << i, j >> : j \in 1 .. Len(Dados(TABELA_ROSCAS[i], tipo)) } :
            i \in 1 .. Len(TABELA_ROSCAS) }

EntradaEm(tipo, pos) == Dados(TABELA_ROSCAS[pos[1]], tipo)[pos[2]]

\* declaration order: standards first, then sizes
Antes(a, b) == a[1] < b[1] \/ (a[1] = b[1] /\ a[2] < b[2])

\* the positions whose reference is within the tolerance of the measured
\* diameter, by the decimal values written in the source
Proximas(n, tipo) ==
    { pos \in Posicoes(tipo) : Abs(n - EntradaEm(tipo, pos).ref.p) <= TOLERANCIA }

\* the positions fator_decisao's own test accepts
Aceitas(n, tipo) ==
    { pos \in Posicoes(tipo) : Qualifica(FLit(n), EntradaEm(tipo, pos).ref) }

Retornou == fd_pc = "retorno"

SemCorrespondencia ==
    /\ fd_ret.norma = "None" /\ fd_ret.bitola = "None" /\ fd_ret.diametro_ref = "None"
    /\ fd_ret.confianca = FLit(0)

\* C1: fator_decisao reports a match with confidence 95.0 exactly when some
\* entry of the bore kind, in any standard, has |d - reference| <= 0.3, the
\* boundary included; otherwise it returns no standard, size or reference and
\* confidence 0.0.
C1_MatchIffWithinTolerance ==
    Retornou =>
        IF Proximas(fd_n, Tipo(fd_interna)) # {}
        THEN fd_ret.norma # "None" /\ fd_ret.confianca = FLit(9500)
        ELSE SemCorrespondencia

C3_ReportedIsClosest ==
    (Retornou /\ fd_ret.norma # "None") =>
        \A pos \in Posicoes(Tipo(fd_interna)) :
            ~(Abs(fd_n - EntradaEm(Tipo(fd_interna), pos).ref.p)
                < Abs(fd_n - fd_ret.diametro_ref.p))

\* C8 as stated: external 20.9 mm is reported as BSP "3/4", 20.9, 95.0.
C8_Stated ==
    (Retornou /\ fd_n = 2090 /\ ~fd_interna) =>
        /\ fd_ret.norma = "BSP" /\ fd_ret.bitola = "3/4"
        /\ fd_ret.diametro_ref = FLit(2090) /\ fd_ret.confianca = FLit(9500)

\* C8: external 20.9 mm is reported as BSP "1/2", reference 20.9, confidence
\* 95.0 (BSP external "3/4" is 26.4).
C8_External209 ==
    (Retornou /\ fd_n = 2090 /\ ~fd_interna) =>
        /\ fd_ret.norma = "BSP" /\ fd_ret.bitola = "1/2"
        /\ fd_ret.diametro_ref = FLit(2090) /\ fd_ret.confianca = FLit(9500)
        /\ EntradaEm("externa", << 1, 5 >>) = Entrada("3/4", 2640)

C8_Witness == Retornou /\ fd_n = 2090 /\ ~fd_interna /\ fd_ret.norma # "None"

C5_Postcondition ==
    ec_pc = "retorno" =>
        LET out == ec_ret.lista
        IN  /\ ec_ret.exc = ""
            /\ Len(out) = Len(ec_original)
            /\ \A i \in 1 .. Len(out) - 1 : FLeq(out[i], out[i + 1])
            /\ \A i \in 1 .. Len(out) - 1 :
                   ~FLt(FSub(out[i + 1], out[i]), FLit(DISTANCIA_MINIMA))
            /\ Len(out) > 0 =>
                   /\ \E i \in 1 .. Len(ec_original) : FEq(out[1], ec_original[i])
                   /\ \A i \in 1 .. Len(ec_original) : FLeq(out[1], ec_original[i])
            /\ ec_medidas = ec_original

\* ------------------------------------------------------------------------
\* Properties of the requests (Spec)
\* ------------------------------------------------------------------------
MaxDe(S) == CHOOSE x \in S : \A y \in S : y <= x

RaiosDe(img) == { img.raios[i] : i \in 1 .. Len(img.raios) }

LargurasPlausiveis(img) ==
    { img.caixas[i].w : i \in { k \in 1 .. Len(img.caixas) :
          /\ img.caixas[k].w > 80 /\ img.caixas[k].w < 1200
          /\ img.caixas[k].h > 40 /\ img.caixas[k].h < 800 } }

Mediu(r) == pc[r] \in {"medido", "respondido", "visto"} /\ pedido[r].file.decod

Respondeu(r) == pc[r] \in {"respondido", "visto"}

TemAmbos(img) == RaiosDe(img) # {} /\ LargurasPlausiveis(img) # {}

Dobro(x) == Flt(2 * x.p, x.q, 2 * x.r)

\* C4: with a circle and a plausible box, medir_diametro returns
\* (2 * largest radius) * (86.0 / largest plausible width), which is positive;
\* doubling the width halves the result, doubling the radius doubles it, and
\* width 860 with radius 100 gives 20.0.
C4_DiameterFormula ==
    \A r \in Pedidos :
        (Mediu(r) /\ TemAmbos(pedido[r].file)) =>
            LET img == pedido[r].file
                R   == MaxDe(RaiosDe(img))
                W   == MaxDe(LargurasPlausiveis(img))
            IN  /\ medido[r] = FMulInt(2 * R, FDivInt(86, W))
                /\ FIsPos(medido[r])
                /\ divisores[r] = << W >>
                /\ (W = 860 /\ R = 100) => FEq(medido[r], Flt(20, 1, 0))
                /\ \A o \in Pedidos :
                      (Mediu(o) /\ TemAmbos(pedido[o].file)) =>
                         LET Ro == MaxDe(RaiosDe(pedido[o].file))
                             Wo == MaxDe(LargurasPlausiveis(pedido[o].file))
                         IN  /\ (Ro = R /\ Wo = 2 * W) => FEq(medido[r], Dobro(medido[o]))
                             /\ (Ro = 2 * R /\ Wo = W) => FEq(medido[o], Dobro(medido[r]))

\* C4 witness: one request measured an image with several circles and several
\* plausible boxes, the other the 860-wide card with a circle of radius 100.
C4_Witness ==
    \E r, o \in Pedidos :
        /\ Mediu(r) /\ Cardinality(RaiosDe(pedido[r].file)) > 1
        /\ Cardinality(LargurasPlausiveis(pedido[r].file)) > 1
        /\ FEq(medido[r], Flt(21, 1, 0))
        /\ Mediu(o) /\ RaiosDe(pedido[o].file) = {100}
        /\ LargurasPlausiveis(pedido[o].file) = {860}

\* C6: a decodable image with no circle, or with no plausible box, ends in
\* the 400 "could not identify" answer (not the "no match" one), with
\* medir_diametro returning -1 and fator_decisao not invoked; and no request
\* ever divides 86.0 by a width <= 0.
C6_NoFeatureFound ==
    \A r \in Pedidos :
        /\ \A i \in 1 .. Len(divisores[r]) : divisores[r][i] > 0
        /\ resp[r] # Erro500("ZeroDivisionError")
        /\ (Mediu(r) /\ ~TemAmbos(pedido[r].file)) =>
              /\ medido[r] = MenosUm
              /\ divisores[r] = <<>>
              /\ ~chamou[r]
              /\ Respondeu(r) =>
                    /\ resp[r] = [status |-> 400,
                                  erro   |-> "Nao foi possivel identificar a rosca",
                                  debug  |-> DEBUG_URL]
                    /\ resp[r].erro # "Nenhuma correspondencia encontrada"

\* C6 witness: one request answered for an image with a card and no circle,
\* the other for an image with a circle and no plausible box.
C6_Witness ==
    \E r, o \in Pedidos :
        /\ Respondeu(r) /\ pedido[r].file.decod
        /\ RaiosDe(pedido[r].file) = {} /\ LargurasPlausiveis(pedido[r].file) # {}
        /\ Respondeu(o) /\ pedido[o].file.decod
        /\ RaiosDe(pedido[o].file) # {} /\ LargurasPlausiveis(pedido[o].file) = {}

\* C7: every failure response carries the reference to the debug image, and
\* the request wrote the debug image before answering.
C7_FailureCarriesDebug ==
    \A r \in Pedidos :
        (Respondeu(r) /\ resp[r].status # 200) =>
            /\ "debug" \in DOMAIN resp[r]
            /\ escreveu[r]

\* C10: the catalog is never modified, every response refers to the one debug
\* location, and what a request measured and answered is determined by its
\* own file and flag, under every interleaving.
C10_OwnInputsOnly ==
    /\ tabela = TABELA_ROSCAS
    /\ \A r \in Pedidos :
          /\ "debug" \in DOMAIN resp[r] => resp[r].debug = DEBUG_URL
          /\ pc[r] = "medido" => medido[r] = medir_diametro(pedido[r].file).valor
          /\ Respondeu(r) =>
                resp[r] = analisar(TABELA_ROSCAS, pedido[r].file, pedido[r].interna)

\* C10 witness: A's caller follows the debug link of A's response and finds
\* the image B annotated.
C10_Witness ==
    \E a, b \in Pedidos :
        /\ a # b
        /\ pc[a] = "visto"
        /\ resp[a].debug = DEBUG_URL
        /\ escreveu[a]
        /\ visto[a].de = b
        /\ visto[a].imagem = Anotada(pedido[b].file)
        /\ visto[a].imagem # Anotada(pedido[a].file)
====
